---- MODULE Spec2Model ----
(***************************************************************************)
(* Model of auth_saml/models/res_users.py: the res.users extension that    *)
(* signs users in from a validated SAML response, keeps one auth_saml.token *)
(* per (user, provider), lets a token stand in for a password, and keeps   *)
(* passwords and SAML ids apart when the database parameter says so.       *)
(*                                                                         *)
(* Tables are variables.  Every method of ResUser is an operator from the  *)
(* tables (a record db) to a result record [db, exc, ...]; exc is the name *)
(* of the exception that ended the call, or "none".  An action calls one   *)
(* public entry point and installs the tables it leaves behind.            *)
(***************************************************************************)
EXTENDS Integers, Sequences, FiniteSets, TLC

\* ---------------------------------------------------------------- bounds
\* Highest res.users id that create() may hand out.
MaxUserId == 3
\* Highest number of res.users.saml records.
MaxLinks == 2

\* ------------------------------------------------------------- constants
\* odoo.SUPERUSER_ID
SUPERUSER_ID == 1
\* id of the record behind the xml id base.user_admin, when it exists
UserAdminId == 2

\* Python's False: a NULL column, an unset Char field, env.ref(..., False)
\* of a missing xml id is modelled by user_admin = 0.
PyFalse == "False"
\* A key that a vals dict does not hold.
Absent == "<absent>"

UserIds == 1..MaxUserId
\* auth.saml.provider ids
Providers == {1, 2}
\* subject ids an identity provider asserts (validation["user_id"])
SamlUids == {"abc"}
\* raw SAML responses
Responses == {"r1", "r2"}
\* a password a user may type
Passwords == {"pw"}
\* passlib.utils.generate_password(size=24, charset="ascii_72")
GeneratedPassword == "generated24"

\* login given to a user at creation
LoginOf(u) == <<"__system__", "admin", "alice", "bob", "carol", "dave">>[u]

VARIABLES
    users,              \* ids of the res.users records that exist
    login,              \* res.users.login
    password,           \* res.users.password (PyFalse: NULL)
    saml_ids,           \* table res.users.saml, in id order
    tokens,             \* table auth_saml.token: values per (user, provider)
    allow_param,        \* auth_saml.allow_saml_uid_and_internal_password
    user_admin,         \* env.ref("base.user_admin", False): an id, or 0
    password_security,  \* "password_security" in installed modules
    proc                \* the requests in flight, when requests interleave

vars == <<users, login, password, saml_ids, tokens, allow_param, user_admin,
          password_security, proc>>

\* The tables, as the methods see them.
DB == [users |-> users, login |-> login, password |-> password,
       saml_ids |-> saml_ids, tokens |-> tokens]

\* What the methods read from self.env besides the tables.
Env == [allow |-> allow_param, user_admin |-> user_admin,
        password_security |-> password_security]

\* Python truth value of a Char value.
Truthy(v) == v # PyFalse /\ v # ""

\* user.saml_ids is a non-empty recordset
HasSamlIds(db, user) ==
    \E i \in DOMAIN db.saml_ids : db.saml_ids[i].user_id = user

\* the auth.saml.provider ids of user.saml_ids, in id order
RECURSIVE ProvidersOf(_, _, _)
ProvidersOf(db, user, i) ==
    IF i > Len(db.saml_ids) THEN <<>>
    ELSE IF db.saml_ids[i].user_id = user
         THEN <<db.saml_ids[i].saml_provider_id>> \o ProvidersOf(db, user, i + 1)
         ELSE ProvidersOf(db, user, i + 1)

\* a recordset in id order
RECURSIVE Ordered(_)
Ordered(S) ==
    IF S = {} THEN <<>>
    ELSE LET m == CHOOSE x \in S : \A y \in S : x <= y
         IN <<m>> \o Ordered(S \ {m})

\* A vals dict: the fields this module reads, the res.users.saml records it
\* adds, and name for any field the module does not read.
NoVals == [login |-> Absent, password |-> Absent, name |-> Absent, saml |-> <<>>]

\* ResUser._allow_saml_and_password
_allow_saml_and_password(env) == env.allow

\* ResUser._saml_allowed_user_ids
_saml_allowed_user_ids(env) ==
    {SUPERUSER_ID} \union (IF env.user_admin # 0 THEN {env.user_admin} ELSE {})

\* self.id raises ValueError("Expected singleton") on more than one record
SelfIdRaises(self) == Cardinality(self) > 1
SelfId(self) == IF self = {} THEN 0 ELSE CHOOSE u \in self : TRUE

\* ResUser._set_password, the filter of lines 40-44.  The lambda reads
\* self.id as soon as a user of self has SAML ids.
SetPasswordValueError(db, self) ==
    \E user \in self : HasSamlIds(db, user) /\ SelfIdRaises(self)

SetPasswordSamlUsers(db, self, pw, env) ==
    {user \in self : /\ HasSamlIds(db, user)
                     /\ SelfId(self) \notin _saml_allowed_user_ids(env)
                     /\ Truthy(pw)}

\* ResUser._set_password: the inverse of the password field; pw is the
\* value the write put on every record of self.
_set_password(db, self, pw, env) ==
    IF ~_allow_saml_and_password(env) /\ SetPasswordValueError(db, self)
    THEN [db |-> db, exc |-> "ValueError", logins |-> {}, depth |-> 0]
    ELSE IF /\ ~_allow_saml_and_password(env)
            /\ SetPasswordSamlUsers(db, self, pw, env) # {}
    THEN [db |-> db, exc |-> "ValidationError",
          logins |-> {db.login[u] : u \in SetPasswordSamlUsers(db, self, pw, env)},
          depth |-> 0]
    ELSE [db |-> [db EXCEPT !.password =
                     [u \in DOMAIN @ |-> IF u \in self THEN pw ELSE @[u]]],
          exc |-> "none", logins |-> {}, depth |-> 0]

\* ResUser._autoremove_password_if_saml_gen_password
_autoremove_password_if_saml_gen_password(env) ==
    IF env.password_security THEN GeneratedPassword ELSE PyFalse

\* search([("saml_provider_id", "=", provider), ("user_id", "=", user)]) on
\* auth_saml.token: the records found, by their place among the pair's tokens
TokenSearch(db, user, provider) == DOMAIN db.tokens[user, provider]

\* EnsureCreate as it would be if the backfill reset the token of the pair.
EnsureCreate_Reset(db, user, provider, token) ==
    [db EXCEPT !.tokens[user, provider] = <<PyFalse>>]

\* Lines 227-233: a token without saml_access_token is created when the
\* search found none.
EnsureCreate(db, user, provider, token) ==
    IF token = {}
    THEN [db EXCEPT !.tokens[user, provider] = Append(@, PyFalse)]
    ELSE db

\* One pass of the inner loop of _ensure_saml_token_exists.
EnsureOne(db, user, provider) ==
    EnsureCreate(db, user, provider, TokenSearch(db, user, provider))

RECURSIVE EnsureProviders(_, _, _)
EnsureProviders(db, user, provs) ==
    IF provs = <<>> THEN db
    ELSE EnsureProviders(EnsureOne(db, user, Head(provs)), user, Tail(provs))

RECURSIVE EnsureRecords(_, _)
EnsureRecords(db, recs) ==
    IF recs = <<>> THEN db
    ELSE EnsureRecords(
             EnsureProviders(db, Head(recs), ProvidersOf(db, Head(recs), 1)),
             Tail(recs))

\* _ensure_saml_token_exists as it would be if it stopped after one record.
_ensure_saml_token_exists_FirstOnly(db, self) ==
    LET recs == Ordered({r \in self : HasSamlIds(db, r)})
    IN IF recs = <<>> THEN db
       ELSE EnsureProviders(db, Head(recs), ProvidersOf(db, Head(recs), 1))

\* ResUser._ensure_saml_token_exists
_ensure_saml_token_exists(db, self) ==
    EnsureRecords(db, Ordered({r \in self : HasSamlIds(db, r)}))

\* The res.users.saml records a vals dict adds to each record of recs.
RECURSIVE AddLinks(_, _, _)
AddLinks(links, recs, new) ==
    IF recs = <<>> THEN links
    ELSE AddLinks(
             links \o [i \in 1..Len(new) |->
                          [user_id |-> Head(recs),
                           saml_provider_id |-> new[i].saml_provider_id,
                           saml_uid |-> new[i].saml_uid]],
             Tail(recs), new)

\* super().write(vals): the fields of vals are put on every record of self,
\* and a password among them goes through its inverse, _set_password.  The
\* base write is all or nothing.
BaseWrite(db, self, vals, env) ==
    LET db1 == [db EXCEPT
                  !.login = [u \in DOMAIN @ |->
                                IF u \in self /\ vals.login # Absent
                                THEN vals.login ELSE @[u]],
                  !.saml_ids = AddLinks(@, Ordered(self), vals.saml)]
        r == _set_password(db1, self, vals.password, env)
    IN IF vals.password = Absent
       THEN [db |-> db1, exc |-> "none", logins |-> {}, depth |-> 0]
       ELSE IF r.exc # "none" THEN [r EXCEPT !.db = db]
       ELSE r

RECURSIVE write(_, _, _, _, _)

\* _autoremove_password_if_saml as it would be if the context key were read
\* one write too late: the nested cleanup writes once more before it stops.
_autoremove_password_if_saml_LateMarker(db, self, ctx, env) ==
    LET to_remove_password ==
            {rec \in self : /\ rec # SUPERUSER_ID
                            /\ HasSamlIds(db, rec)
                            /\ Truthy(db.password[rec])}
        vals == [NoVals EXCEPT !.password =
                    _autoremove_password_if_saml_gen_password(env)]
    IN IF _allow_saml_and_password(env) \/ to_remove_password = {}
       THEN [db |-> db, exc |-> "none", logins |-> {}, depth |-> 0]
       ELSE IF ctx
       THEN [BaseWrite(db, to_remove_password, vals, env) EXCEPT !.depth = 1]
       ELSE write(db, to_remove_password, vals, TRUE, env)

\* ResUser._autoremove_password_if_saml; ctx is the context key
\* auth_saml_no_autoremove_password.
_autoremove_password_if_saml(db, self, ctx, env) ==
    LET to_remove_password ==
            {rec \in self : /\ rec # SUPERUSER_ID
                            /\ HasSamlIds(db, rec)
                            /\ Truthy(db.password[rec])}
    IN IF ctx
       THEN [db |-> db, exc |-> "none", logins |-> {}, depth |-> 0]
       ELSE IF _allow_saml_and_password(env)
       THEN [db |-> db, exc |-> "none", logins |-> {}, depth |-> 0]
       ELSE IF to_remove_password # {}
       THEN write(db, to_remove_password,
                  [NoVals EXCEPT !.password =
                      _autoremove_password_if_saml_gen_password(env)],
                  TRUE, env)
       ELSE [db |-> db, exc |-> "none", logins |-> {}, depth |-> 0]

\* ResUser.write.  depth counts the writes on the call stack.
write(db, self, vals, ctx, env) ==
    LET r1 == BaseWrite(db, self, vals, env)
        r2 == _autoremove_password_if_saml(r1.db, self, ctx, env)
    IN IF r1.exc # "none" THEN [r1 EXCEPT !.depth = 1]
       ELSE IF r2.exc # "none" THEN [r2 EXCEPT !.depth = 1 + r2.depth]
       ELSE [db |-> _ensure_saml_token_exists(r2.db, self), exc |-> "none",
             logins |-> {}, depth |-> 1 + r2.depth]

\* ResUser.create, for a vals_list of one dict: super().create makes the
\* record under the next free id, then the two hooks run on it.
create(db, vals, env) ==
    LET id == Cardinality(db.users) + 1
        db0 == [db EXCEPT !.users = @ \union {id}]
        r1 == BaseWrite(db0, {id}, vals, env)
        r2 == _autoremove_password_if_saml(r1.db, {id}, FALSE, env)
    IN IF r1.exc # "none" THEN [r1 EXCEPT !.db = db, !.depth = 1]
       ELSE IF r2.exc # "none" THEN [r2 EXCEPT !.depth = 1 + r2.depth]
       ELSE [db |-> _ensure_saml_token_exists(r2.db, {id}), exc |-> "none",
             logins |-> {}, depth |-> 1 + r2.depth]

\* ------------------------------------------------------------ sign-in

\* self.env.cr.dbname
DbName == "db"

\* SamlMatches as it would be if the search left the provider out.
SamlMatches_AnyProvider(db, saml_uid, provider) ==
    {i \in DOMAIN db.saml_ids : db.saml_ids[i].saml_uid = saml_uid}

\* search([("saml_uid", "=", saml_uid), ("saml_provider_id", "=", provider)],
\*        limit=1).user_id: the user of the first matching record, if any
SamlMatches(db, saml_uid, provider) ==
    {i \in DOMAIN db.saml_ids : /\ db.saml_ids[i].saml_uid = saml_uid
                                /\ db.saml_ids[i].saml_provider_id = provider}

SigninUser(db, saml_uid, provider) ==
    LET m == SamlMatches(db, saml_uid, provider)
    IN IF m = {} THEN {}
       ELSE {db.saml_ids[CHOOSE i \in m : \A j \in m : i <= j].user_id}

\* TokenWriteOrCreate as it would be without the "if token_ids" branch.
TokenWriteOrCreate_AlwaysCreate(db, user, provider, saml_response, token_ids) ==
    [db EXCEPT !.tokens[user, provider] = Append(@, saml_response)]

\* TokenWriteOrCreate as it would be if a found token were left as it is.
TokenWriteOrCreate_KeepFound(db, user, provider, saml_response, token_ids) ==
    IF token_ids # {} THEN db
    ELSE [db EXCEPT !.tokens[user, provider] = Append(@, saml_response)]

\* Lines 105-115: every record the search found is written; one is
\* created when it found none.
TokenWriteOrCreate(db, user, provider, saml_response, token_ids) ==
    IF token_ids # {}
    THEN [db EXCEPT !.tokens[user, provider] =
             [i \in DOMAIN @ |-> IF i \in token_ids THEN saml_response ELSE @[i]]]
    ELSE [db EXCEPT !.tokens[user, provider] = Append(@, saml_response)]

\* Lines 100-115 in one step: search, then write or create.
TokenSync(db, user, provider, saml_response) ==
    TokenWriteOrCreate(db, user, provider, saml_response,
                       TokenSearch(db, user, provider))

\* ResUser._auth_saml_signin
_auth_saml_signin(db, provider, validation, saml_response, env) ==
    LET user == SigninUser(db, validation.user_id, provider)
        uid == CHOOSE u \in user : TRUE
        db1 == TokenSync(db, uid, provider, saml_response)
        w == write(db1, {uid}, validation.mapped_attrs, FALSE, env)
    IN IF Cardinality(user) # 1
       THEN [db |-> db, exc |-> "AccessDenied", ret |-> PyFalse, user |-> 0]
       ELSE IF validation.mapped_attrs = NoVals
       THEN [db |-> db1, exc |-> "none", ret |-> db1.login[uid], user |-> uid]
       ELSE IF w.exc # "none"
       THEN [db |-> w.db, exc |-> w.exc, ret |-> PyFalse, user |-> uid]
       ELSE [db |-> w.db, exc |-> "none", ret |-> w.db.login[uid], user |-> uid]

\* auth_saml as it would be without the required check of lines 127-128.
auth_saml_NoRequiredCheck(db, provider, saml_response, validation, env) ==
    LET r == _auth_saml_signin(db, provider, validation, saml_response, env)
    IN IF r.exc # "none" THEN [r EXCEPT !.ret = <<>>]
       ELSE IF ~Truthy(r.ret)
       THEN [db |-> r.db, exc |-> "AccessDenied", ret |-> <<>>, user |-> r.user]
       ELSE [db |-> r.db, exc |-> "none",
             ret |-> <<DbName, r.ret, saml_response>>, user |-> r.user]

\* ResUser.auth_saml; validation is what _auth_saml_validate returned.
auth_saml(db, provider, saml_response, validation, env) ==
    LET r == _auth_saml_signin(db, provider, validation, saml_response, env)
    IN IF ~Truthy(validation.user_id)
       THEN [db |-> db, exc |-> "AccessDenied", ret |-> <<>>, user |-> 0]
       ELSE IF r.exc # "none" THEN [r EXCEPT !.ret = <<>>]
       ELSE IF ~Truthy(r.ret)
       THEN [db |-> r.db, exc |-> "AccessDenied", ret |-> <<>>, user |-> r.user]
       ELSE [db |-> r.db, exc |-> "none",
             ret |-> <<DbName, r.ret, saml_response>>, user |-> r.user]

\* TokenMatches as it would be if the search left the user out.
TokenMatches_AnyUser(db, uid, pw) ==
    \E u \in db.users, p \in Providers : \E i \in DOMAIN db.tokens[u, p] :
        db.tokens[u, p][i] = pw

\* search([("user_id", "=", uid), ("saml_access_token", "=", password)])
\* is a non-empty recordset
TokenMatches(db, uid, pw) ==
    \E p \in Providers : \E i \in DOMAIN db.tokens[uid, p] :
        db.tokens[uid, p][i] = pw

\* _check_credentials as it would be with a bare "except Exception".
_check_credentials_CatchAll(db, uid, pw, std) ==
    IF std = "ok" THEN "none"
    ELSE IF ~TokenMatches(db, uid, pw) THEN "AccessDenied" ELSE "none"

\* _check_credentials as it would be if the search ran for the superuser
\* that sudo() switches to.
_check_credentials_SudoUser(db, uid, pw, std) ==
    IF std = "ok" THEN "none"
    ELSE IF std \in {"AccessDenied", "PasswordSizeError"}
    THEN IF ~TokenMatches(db, SUPERUSER_ID, pw) THEN "AccessDenied" ELSE "none"
    ELSE std

\* ResUser._check_credentials for the session user uid; std is how
\* super()._check_credentials(password, env) ended.
_check_credentials(db, uid, pw, std) ==
    IF std = "ok" THEN "none"
    ELSE IF std \in {"AccessDenied", "PasswordSizeError"}
    THEN IF ~TokenMatches(db, uid, pw) THEN "AccessDenied" ELSE "none"
    ELSE std

\* ------------------------------------------------------------- actions

Install(db) ==
    /\ users' = db.users
    /\ login' = db.login
    /\ password' = db.password
    /\ saml_ids' = db.saml_ids
    /\ tokens' = db.tokens

\* vals dicts of the modelled writes
LinkVals == {[saml_provider_id |-> p, saml_uid |-> s] : p \in Providers, s \in SamlUids}
WriteVals ==
    {[NoVals EXCEPT !.password = pw] : pw \in Passwords \union {PyFalse}}
    \union {[NoVals EXCEPT !.saml = <<l>>] : l \in LinkVals}
    \union {[NoVals EXCEPT !.name = "n"]}

\* what _auth_saml_validate may return: a subject id that may be linked, one
\* that never is, or none; with or without mapped attributes
Validations ==
    [user_id : SamlUids \union {"nobody", PyFalse},
     mapped_attrs : {NoVals, [NoVals EXCEPT !.name = "n"],
                     [NoVals EXCEPT !.login = ""],
                     [NoVals EXCEPT !.password = "pw"]}]

\* what is presented to _check_credentials as a password
Secrets == Responses \union Passwords \union {PyFalse}
\* how the standard check may end
StdOutcomes == {"ok", "AccessDenied", "PasswordSizeError", "UserError"}

\* the writes made in the current state: users.write(vals) on a non-empty
\* recordset; a vals dict that adds a res.users.saml record is written on
\* one user, as the same subject id would else go to every user of the set
WriteInputs ==
    {in \in [self : (SUBSET users) \ {{}}, vals : WriteVals] :
        in.vals.saml # <<>> =>
            Cardinality(in.self) = 1 /\ Len(saml_ids) < MaxLinks}

Write ==
    \E in \in WriteInputs :
        /\ LET r == write(DB, in.self, in.vals, FALSE, Env)
           IN Install(r.db)
        /\ UNCHANGED <<allow_param, user_admin, password_security, proc>>

\* env["res.users"].create([vals])
Create ==
    \E pw \in Passwords \union {PyFalse}, links \in {<<>>} \union {<<l>> : l \in LinkVals} :
        /\ Cardinality(users) < MaxUserId
        /\ Len(saml_ids) + Len(links) <= MaxLinks
        /\ LET vals == [login |-> LoginOf(Cardinality(users) + 1),
                        password |-> pw, name |-> "n", saml |-> links]
               r == create(DB, vals, Env)
           IN Install(r.db)
        /\ UNCHANGED <<allow_param, user_admin, password_security, proc>>

\* A res.users.saml record made on its own model: no res.users hook runs,
\* and nothing here refuses a second record for the same (provider, subject).
LinkSaml ==
    \E u \in users, l \in LinkVals :
        /\ Len(saml_ids) < MaxLinks
        /\ saml_ids' = Append(saml_ids, [user_id |-> u,
                                         saml_provider_id |-> l.saml_provider_id,
                                         saml_uid |-> l.saml_uid])
        /\ UNCHANGED <<users, login, password, tokens, allow_param, user_admin,
                       password_security, proc>>

\* The database parameter is set; the last value written wins.
SetParam ==
    \E b \in BOOLEAN :
        /\ b # allow_param
        /\ allow_param' = b
        /\ UNCHANGED <<users, login, password, saml_ids, tokens, user_admin,
                       password_security, proc>>

\* env["res.users"].auth_saml(provider, saml_response)
AuthSaml ==
    \E provider \in Providers, saml_response \in Responses, validation \in Validations :
        /\ LET r == auth_saml(DB, provider, saml_response, validation, Env)
           IN Install(r.db)
        /\ UNCHANGED <<allow_param, user_admin, password_security, proc>>

\* user._check_credentials(password, env) in the session of user uid: it
\* returns or raises, and writes nothing
CheckCredentials ==
    IF \E uid \in users, pw \in Secrets, std \in StdOutcomes :
          _check_credentials(DB, uid, pw, std) \in StdOutcomes \union {"none"}
    THEN UNCHANGED vars
    ELSE FALSE

Procs == {1, 2}
Idle == [pc |-> "idle"]

InitTables ==
    /\ users = {SUPERUSER_ID, UserAdminId}
    /\ login = [u \in UserIds |-> IF u <= 2 THEN LoginOf(u) ELSE PyFalse]
    /\ password = [u \in UserIds |-> IF u = UserAdminId THEN "pw" ELSE PyFalse]
    /\ saml_ids = <<>>
    /\ tokens = [k \in UserIds \X Providers |-> <<>>]
    /\ allow_param = FALSE
    /\ user_admin \in {0, UserAdminId}
    /\ proc = [p \in Procs |-> Idle]

\* A database where password_security is not installed.
Init == InitTables /\ password_security = FALSE

\* One request at a time: every call runs to its end before the next starts.
Next == Write \/ Create \/ LinkSaml \/ SetParam \/ AuthSaml \/ CheckCredentials

Spec == Init /\ [][Next]_vars

\* A database where password_security is installed.
InitPasswordSecurity == InitTables /\ password_security = TRUE

SpecPasswordSecurity == InitPasswordSecurity /\ [][Next]_vars

\* ------------------------------------------------- interleaved requests
\* Two requests run at once.  A request's search and the write or create
\* that follows it are two steps; the records found are kept in between.

\* _auth_saml_signin up to the token search of lines 101-103
SigninSearch(pr) ==
    \E provider \in Providers, saml_response \in Responses, saml_uid \in SamlUids :
        LET user == SigninUser(DB, saml_uid, provider)
            uid == CHOOSE u \in user : TRUE
        IN /\ proc[pr].pc = "idle"
           /\ Cardinality(user) = 1
           /\ proc' = [proc EXCEPT ![pr] =
                  [pc |-> "token_sync", user |-> uid, provider |-> provider,
                   saml_response |-> saml_response,
                   token_ids |-> TokenSearch(DB, uid, provider)]]
           /\ UNCHANGED <<users, login, password, saml_ids, tokens, allow_param,
                          user_admin, password_security>>

\* _auth_saml_signin, lines 105-115, on what the search found
SigninSync(pr) ==
    /\ proc[pr].pc = "token_sync"
    /\ Install(TokenWriteOrCreate(DB, proc[pr].user, proc[pr].provider,
                                  proc[pr].saml_response, proc[pr].token_ids))
    /\ proc' = [proc EXCEPT ![pr] = Idle]
    /\ UNCHANGED <<allow_param, user_admin, password_security>>

\* a write of one user reaches _ensure_saml_token_exists: record.saml_ids
\* is read for the inner loop
EnsureBegin(pr) ==
    \E record \in users :
        /\ proc[pr].pc = "idle"
        /\ HasSamlIds(DB, record)
        /\ proc' = [proc EXCEPT ![pr] =
               [pc |-> "ensure_search", user |-> record,
                todo |-> ProvidersOf(DB, record, 1)]]
        /\ UNCHANGED <<users, login, password, saml_ids, tokens, allow_param,
                       user_admin, password_security>>

\* the search of lines 221-226 for the next provider
EnsureSearch(pr) ==
    /\ proc[pr].pc = "ensure_search"
    /\ proc[pr].todo # <<>>
    /\ proc' = [proc EXCEPT ![pr] =
           [pc |-> "ensure_create", user |-> proc[pr].user,
            todo |-> proc[pr].todo,
            token |-> TokenSearch(DB, proc[pr].user, Head(proc[pr].todo))]]
    /\ UNCHANGED <<users, login, password, saml_ids, tokens, allow_param,
                   user_admin, password_security>>

\* lines 227-233 on what the search found
EnsureStep(pr) ==
    /\ proc[pr].pc = "ensure_create"
    /\ Install(EnsureCreate(DB, proc[pr].user, Head(proc[pr].todo), proc[pr].token))
    /\ proc' = [proc EXCEPT ![pr] =
           [pc |-> "ensure_search", user |-> proc[pr].user,
            todo |-> Tail(proc[pr].todo)]]
    /\ UNCHANGED <<allow_param, user_admin, password_security>>

\* the loop is over
EnsureDone(pr) ==
    /\ proc[pr].pc = "ensure_search"
    /\ proc[pr].todo = <<>>
    /\ proc' = [proc EXCEPT ![pr] = Idle]
    /\ UNCHANGED <<users, login, password, saml_ids, tokens, allow_param,
                   user_admin, password_security>>

NextConcurrent ==
    \/ LinkSaml
    \/ \E pr \in Procs : SigninSearch(pr)
    \/ \E pr \in Procs : SigninSync(pr)
    \/ \E pr \in Procs : EnsureBegin(pr)
    \/ \E pr \in Procs : EnsureSearch(pr)
    \/ \E pr \in Procs : EnsureStep(pr)
    \/ \E pr \in Procs : EnsureDone(pr)

SpecConcurrent == Init /\ [][NextConcurrent]_vars

\* ------------------------------------------------- empty subject ids
\* Databases where a res.users.saml record may hold an empty saml_uid, and
\* validators that may hand back an empty user_id, or none (validation.get
\* then gives None, which reads as PyFalse).

SubjectIds == SamlUids \union {""}

SubjectValidations ==
    [user_id : SubjectIds \union {PyFalse},
     mapped_attrs : {NoVals, [NoVals EXCEPT !.name = "n"]}]

\* A res.users.saml record made on its own model, its subject id empty or not.
LinkSamlSubject ==
    \E u \in users, p \in Providers, s \in SubjectIds :
        /\ Len(saml_ids) < MaxLinks
        /\ saml_ids' = Append(saml_ids, [user_id |-> u, saml_provider_id |-> p,
                                         saml_uid |-> s])
        /\ UNCHANGED <<users, login, password, tokens, allow_param, user_admin,
                       password_security, proc>>

\* env["res.users"].auth_saml(provider, saml_response)
AuthSamlSubject ==
    \E provider \in Providers, saml_response \in Responses,
       validation \in SubjectValidations :
        /\ LET r == auth_saml(DB, provider, saml_response, validation, Env)
           IN Install(r.db)
        /\ UNCHANGED <<allow_param, user_admin, password_security, proc>>

NextSubjects == LinkSamlSubject \/ AuthSamlSubject

SpecSubjects == Init /\ [][NextSubjects]_vars

\* ============================================================== claims

\* the res.users.saml records of (provider, subject id), read off the table
LinksOf(saml_uid, provider) ==
    {i \in 1..Len(saml_ids) :
        saml_ids[i] \in [user_id : UserIds, saml_provider_id : {provider},
                         saml_uid : {saml_uid}]}

\* a validation that carries a subject id and no mapped attributes
Validated(saml_uid) == [user_id |-> saml_uid, mapped_attrs |-> NoVals]

\* the validations whose mapped attributes, if any, leave login and password
\* alone
PlainValidations ==
    {v \in Validations : v.mapped_attrs.login = Absent
                         /\ v.mapped_attrs.password = Absent}

\* C1: one request at a time, every (user, provider) pair has at most one
\* token, and a sign-in for a pair that has a token leaves the pair with the
\* same number of tokens, each holding the new response.
C1_OneTokenPerPair ==
    /\ \A u \in UserIds, p \in Providers : Len(tokens[u, p]) <= 1
    /\ \A provider \in Providers, saml_response \in Responses, v \in Validations :
        LET r == auth_saml(DB, provider, saml_response, v, Env)
        IN (r.user # 0 /\ tokens[r.user, provider] # <<>>) =>
              /\ Len(r.db.tokens[r.user, provider]) = Len(tokens[r.user, provider])
              /\ \A i \in DOMAIN r.db.tokens[r.user, provider] :
                    r.db.tokens[r.user, provider][i] = saml_response

\* C1 witness: a pair holds the one token a sign-in left, and a further
\* sign-in with another response resolves to that pair.
C1_Witness ==
    \E u \in users, p \in Providers :
        /\ tokens[u, p] = <<"r1">>
        /\ auth_saml(DB, p, "r2", Validated("abc"), Env).user = u

\* C2: with requests interleaved, every (user, provider) pair still has at
\* most one token.
C2_OneTokenPerPairConcurrent ==
    \A u \in UserIds, p \in Providers : Len(tokens[u, p]) < 2

\* C3: a sign-in whose (provider, subject id) matches no res.users.saml
\* record, or more than one, ends in AccessDenied.
C3_DeniedUnlessOneMatch ==
    \A provider \in Providers, saml_uid \in SamlUids \union {"nobody"},
       saml_response \in Responses :
        Cardinality(LinksOf(saml_uid, provider)) # 1 =>
            auth_saml(DB, provider, saml_response, Validated(saml_uid), Env).exc
                = "AccessDenied"

\* C4: whatever the parameter says, a write leaves an exempt account that has
\* SAML ids the non-empty password it had or was given: a password write on
\* the account alone is not rejected, and no completed write clears it.
C4_ExemptKeepsPassword ==
    \A in \in WriteInputs, u \in users \intersect _saml_allowed_user_ids(Env) :
        LET r == write(DB, in.self, in.vals, FALSE, Env)
            pw == IF u \in in.self /\ in.vals.password # Absent
                  THEN in.vals.password ELSE password[u]
        IN (HasSamlIds(r.db, u) /\ Truthy(pw)) =>
              /\ in.self = {u} => r.exc = "none"
              /\ r.exc = "none" => r.db.password[u] = pw

\* C5: with the parameter false, a write of a non-blank password on a set of
\* users of which some have SAML ids and are not exempt ends in
\* ValidationError, names the logins of exactly those users, and stores no
\* password.
C5_PasswordWriteRejected ==
    \A self \in (SUBSET users) \ {{}}, pw \in Passwords :
        LET offending == {u \in self : /\ HasSamlIds(DB, u)
                                       /\ u \notin _saml_allowed_user_ids(Env)}
            r == write(DB, self, [NoVals EXCEPT !.password = pw], FALSE, Env)
        IN (~allow_param /\ offending # {}) =>
              /\ r.exc = "ValidationError"
              /\ r.logins = {login[u] : u \in offending}
              /\ r.db.password = password

\* C6: with the parameter false, a write whose base write leaves a
\* non-exempt user with a non-empty password and SAML ids completes without
\* raising and leaves that user's password blank.
C6_CleanupBlanksPassword ==
    \A in \in WriteInputs, u \in users \ _saml_allowed_user_ids(Env) :
        LET b == BaseWrite(DB, in.self, in.vals, Env)
            r == write(DB, in.self, in.vals, FALSE, Env)
        IN (/\ ~allow_param
            /\ u \in in.self
            /\ b.exc = "none"
            /\ HasSamlIds(b.db, u)
            /\ Truthy(b.db.password[u])) =>
              /\ r.exc = "none"
              /\ r.db.password[u] = PyFalse

\* C7: when (provider, subject id) is linked to exactly one user, whose login
\* is not empty, auth_saml with a response validated to that subject id
\* (mapped attributes, if any, leaving login and password alone) returns
\* (database, login, response) and leaves exactly one token for
\* (user, provider), holding the response.
C7_SigninReturnsAndStores ==
    \A provider \in Providers, v \in PlainValidations, saml_response \in Responses,
       u \in users :
        LET m == LinksOf(v.user_id, provider)
            r == auth_saml(DB, provider, saml_response, v, Env)
        IN (/\ Cardinality(m) = 1
            /\ \A i \in m : saml_ids[i].user_id = u
            /\ Truthy(login[u])) =>
              /\ r.exc = "none"
              /\ r.ret = <<DbName, login[u], saml_response>>
              /\ r.db.tokens[u, provider] = <<saml_response>>

\* C7 witness: a sign-in has stored r1 for a pair that is linked once, and
\* the owner's login is not empty, so the next sign-in meets a token.
C7_Witness ==
    \E u \in users, p \in Providers :
        /\ tokens[u, p] = <<"r1">>
        /\ Truthy(login[u])
        /\ Cardinality(LinksOf("abc", p)) = 1
        /\ \A i \in LinksOf("abc", p) : saml_ids[i].user_id = u

\* C8: when no res.users.saml record matches (provider, subject id),
\* auth_saml ends in AccessDenied and leaves every table as it was.
C8_NoMatchNoChange ==
    \A provider \in Providers, saml_response \in Responses, v \in Validations :
        LET r == auth_saml(DB, provider, saml_response, v, Env)
        IN (Truthy(v.user_id) /\ LinksOf(v.user_id, provider) = {}) =>
              /\ r.exc = "AccessDenied"
              /\ r.db.tokens = tokens
              /\ r.db = DB

\* C8 witness: the subject id is linked at one provider only, tokens exist,
\* and a sign-in at the other provider is denied.
C8_Witness ==
    \E p \in Providers, q \in Providers, u \in users :
        /\ LinksOf("abc", p) = {}
        /\ \E i \in LinksOf("abc", q) : saml_ids[i].user_id = u
        /\ tokens[u, q] = <<"r1">>
        /\ auth_saml(DB, p, "r2", Validated("abc"), Env).exc = "AccessDenied"

\* C9: with the standard check denied, _check_credentials of user U accepts
\* every response a token of U holds and denies every value no token of U
\* holds; and right
\* after a sign-in of U it accepts the response just stored and denies the
\* response the sign-in replaced, unless another token of U holds it.
C9_TokenAsPassword ==
    /\ \A u \in users, v \in Secrets :
          LET held == \E p \in Providers : \E i \in 1..Len(tokens[u, p]) :
                          tokens[u, p][i] = v
          IN /\ (held /\ v \in Responses) =>
                    _check_credentials(DB, u, v, "AccessDenied") = "none"
             /\ ~held =>
                    _check_credentials(DB, u, v, "AccessDenied") = "AccessDenied"
    /\ \A provider \in Providers, v \in PlainValidations, saml_response \in Responses :
        LET r == auth_saml(DB, provider, saml_response, v, Env)
        IN r.exc = "none" =>
              /\ _check_credentials(r.db, r.user, saml_response, "AccessDenied")
                    = "none"
              /\ \A i \in DOMAIN tokens[r.user, provider] :
                    LET old == tokens[r.user, provider][i]
                    IN (/\ old \in Responses
                        /\ old # saml_response
                        /\ \A q \in Providers \ {provider} :
                              \A j \in DOMAIN tokens[r.user, q] :
                                  tokens[r.user, q][j] # old) =>
                          _check_credentials(r.db, r.user, old, "AccessDenied")
                              = "AccessDenied"

\* C9 witness: a user holds r1 from an earlier sign-in, and a sign-in with r2
\* succeeds for the same pair, so that r1 is rotated away.
C9_Witness ==
    \E u \in users, p \in Providers :
        /\ tokens[u, p] = <<"r1">>
        /\ LET r == auth_saml(DB, p, "r2", Validated("abc"), Env)
           IN /\ r.exc = "none"
              /\ r.user = u
              /\ _check_credentials(r.db, u, "r1", "AccessDenied") = "AccessDenied"
              /\ _check_credentials(DB, u, "r1", "AccessDenied") = "none"

\* C10: _ensure_saml_token_exists run twice gives the tables of one run,
\* with one token for every linked pair of the records, and no token that
\* held a value holds another one afterwards.
C10_EnsureIdempotent ==
    \A self \in SUBSET users :
        LET once == _ensure_saml_token_exists(DB, self)
        IN /\ _ensure_saml_token_exists(once, self) = once
           /\ \A i \in DOMAIN saml_ids :
                 saml_ids[i].user_id \in self =>
                    Len(once.tokens[saml_ids[i].user_id,
                                    saml_ids[i].saml_provider_id]) = 1
           /\ \A u \in UserIds, p \in Providers : \A i \in DOMAIN tokens[u, p] :
                 /\ i \in DOMAIN once.tokens[u, p]
                 /\ Truthy(tokens[u, p][i]) => once.tokens[u, p][i] = tokens[u, p][i]

\* C10 witness: a user has two linked pairs, one with the empty token of the
\* backfill and one with a response, so a further run meets both.
C10_Witness ==
    \E u \in users, p \in Providers, q \in Providers :
        /\ tokens[u, p] = <<PyFalse>>
        /\ tokens[u, q] = <<"r1">>
        /\ _ensure_saml_token_exists(DB, {u}).tokens = tokens

\* the values the auth_saml.token records of user u hold, read off the table
HeldBy(u) ==
    UNION {{tokens[u, p][i] : i \in 1..Len(tokens[u, p])} : p \in Providers}

\* C11: _check_credentials returns without looking at the tokens when the
\* standard check succeeds; it lets a failure other than AccessDenied and
\* PasswordSizeError through as it is, even when a token of the session user
\* holds the secret; and on those two failures alone the tokens of the
\* session user decide.
C11_FallbackOnlyOnDenied ==
    \A uid \in users, pw \in Secrets :
        /\ _check_credentials(DB, uid, pw, "ok") = "none"
        /\ \A std \in StdOutcomes \ {"ok", "AccessDenied", "PasswordSizeError"} :
              _check_credentials(DB, uid, pw, std) = std
        /\ \A std \in {"AccessDenied", "PasswordSizeError"} :
              _check_credentials(DB, uid, pw, std) =
                  IF pw \in HeldBy(uid) THEN "none" ELSE "AccessDenied"

\* C11 witness: a token of a user holds r1, the standard check fails with
\* another kind of failure on r1 and that failure comes out, while r2, which
\* no token of the user holds, passes when the standard check succeeds.
C11_Witness ==
    \E u \in users :
        /\ "r1" \in HeldBy(u)
        /\ "r2" \notin HeldBy(u)
        /\ _check_credentials(DB, u, "r1", "UserError") = "UserError"
        /\ _check_credentials(DB, u, "r1", "PasswordSizeError") = "none"
        /\ _check_credentials(DB, u, "r2", "ok") = "none"

\* C12: when the validation holds no user_id, or a falsy one, auth_saml ends
\* in AccessDenied with no user looked up and every table as it was, whatever
\* the res.users.saml records and the mapped attributes are.
C12_NoSubjectNoLookup ==
    \A provider \in Providers, saml_response \in Responses,
       v \in SubjectValidations :
        LET r == auth_saml(DB, provider, saml_response, v, Env)
        IN ~Truthy(v.user_id) =>
              /\ r.exc = "AccessDenied"
              /\ r.user = 0
              /\ r.db = DB

\* C12 witness: a res.users.saml record with an empty subject id exists, so
\* that the lookup of lines 90-97 would find a user for the empty user_id,
\* and auth_saml is denied all the same.
C12_Witness ==
    \E p \in Providers :
        LET v == [user_id |-> "", mapped_attrs |-> [NoVals EXCEPT !.name = "n"]]
        IN /\ LinksOf("", p) # {}
           /\ _auth_saml_signin(DB, p, v, "r1", Env).exc = "none"
           /\ _auth_saml_signin(DB, p, v, "r1", Env).db # DB
           /\ auth_saml(DB, p, "r1", v, Env).exc = "AccessDenied"

\* C13: with password_security installed and the parameter false, a write on
\* one non-exempt user whose base write leaves it with SAML ids and a
\* non-empty password completes without raising and leaves the user with the
\* generated password, not with NULL.
C13_CleanupSetsPlaceholder ==
    \A in \in WriteInputs, u \in users \ _saml_allowed_user_ids(Env) :
        LET b == BaseWrite(DB, in.self, in.vals, Env)
            r == write(DB, in.self, in.vals, FALSE, Env)
        IN (/\ password_security
            /\ ~allow_param
            /\ in.self = {u}
            /\ b.exc = "none"
            /\ HasSamlIds(b.db, u)
            /\ Truthy(b.db.password[u])) =>
              /\ r.exc = "none"
              /\ r.db.password[u] = GeneratedPassword

\* C14: whatever the validation holds, mapped attributes on login or password
\* included, auth_saml either returns (database, login, response) or ends in
\* AccessDenied.
C14_TripleOrDenied ==
    \A provider \in Providers, saml_response \in Responses, v \in Validations :
        LET r == auth_saml(DB, provider, saml_response, v, Env)
        IN \/ r.exc = "AccessDenied"
           \/ /\ r.exc = "none"
              /\ r.ret = <<DbName, r.db.login[r.user], saml_response>>

\* C15: for every user and value of the parameter, _set_password rejects a
\* non-blank password written on the user exactly when
\* _autoremove_password_if_saml clears that password once the user holds it.
C15_SameEligibility ==
    \A u \in users, pw \in Passwords :
        LET held == [DB EXCEPT !.password[u] = pw]
            rejected == _set_password(DB, {u}, pw, Env).exc = "ValidationError"
            cleared == _autoremove_password_if_saml(held, {u}, FALSE, Env)
                           .db.password[u] # pw
        IN rejected <=> cleared

\* the tables after a completed write or create on the records self: every
\* SAML id of a record of self has a token for its (user, provider), and the
\* only tokens that differ from those of before are empty ones, created for
\* a pair of self that is linked and had none
Backfilled(db, self) ==
    /\ \A i \in DOMAIN db.saml_ids :
          db.saml_ids[i].user_id \in self =>
              db.tokens[db.saml_ids[i].user_id, db.saml_ids[i].saml_provider_id]
                  # <<>>
    /\ \A u \in UserIds, p \in Providers :
          \/ db.tokens[u, p] = tokens[u, p]
          \/ /\ tokens[u, p] = <<>>
             /\ db.tokens[u, p] = <<PyFalse>>
             /\ u \in self
             /\ \E i \in DOMAIN db.saml_ids :
                   /\ db.saml_ids[i].user_id = u
                   /\ db.saml_ids[i].saml_provider_id = p

\* C16: after a completed write or create, every SAML id of the users
\* written has a token for its (user, provider); the tokens the call made
\* hold no value; and no token is made for a user without SAML ids.
C16_BackfillAfterWrite ==
    /\ \A in \in WriteInputs :
          LET r == write(DB, in.self, in.vals, FALSE, Env)
          IN r.exc = "none" => Backfilled(r.db, in.self)
    /\ \A pw \in Passwords \union {PyFalse},
          links \in {<<>>} \union {<<l>> : l \in LinkVals} :
          LET id == Cardinality(users) + 1
              r == create(DB, [login |-> LoginOf(id), password |-> pw,
                               name |-> "n", saml |-> links], Env)
          IN (id <= MaxUserId /\ r.exc = "none") => Backfilled(r.db, {id})

\* C16 witness: two users each have a SAML id without a token, and one write
\* on both completes and leaves each pair with an empty token.
C16_Witness ==
    \E u \in users, w \in users, p \in Providers, q \in Providers :
        LET r == write(DB, {u, w}, [NoVals EXCEPT !.name = "n"], FALSE, Env)
        IN /\ u < w
           /\ \E i \in DOMAIN saml_ids : /\ saml_ids[i].user_id = u
                                         /\ saml_ids[i].saml_provider_id = p
           /\ \E i \in DOMAIN saml_ids : /\ saml_ids[i].user_id = w
                                         /\ saml_ids[i].saml_provider_id = q
           /\ tokens[u, p] = <<>>
           /\ tokens[w, q] = <<>>
           /\ r.exc = "none"
           /\ r.db.tokens[u, p] = <<PyFalse>>
           /\ r.db.tokens[w, q] = <<PyFalse>>

\* the environment of the current state, password_security installed or not
EnvWith(b) == [Env EXCEPT !.password_security = b]

\* C17: a cleanup that runs under the context key
\* auth_saml_no_autoremove_password returns at once and writes nothing, and
\* so every write and every create ends with at most two writes on the call
\* stack, password_security installed or not.
C17_WriteDepthAtMostTwo ==
    /\ \A self \in (SUBSET users) \ {{}}, b \in BOOLEAN :
          _autoremove_password_if_saml(DB, self, TRUE, EnvWith(b))
              = [db |-> DB, exc |-> "none", logins |-> {}, depth |-> 0]
    /\ \A in \in WriteInputs, b \in BOOLEAN :
          write(DB, in.self, in.vals, FALSE, EnvWith(b)).depth \in {1, 2}
    /\ \A pw \in Passwords \union {PyFalse},
          links \in {<<>>} \union {<<l>> : l \in LinkVals}, b \in BOOLEAN :
          LET id == Cardinality(users) + 1
          IN id <= MaxUserId =>
                create(DB, [login |-> LoginOf(id), password |-> pw,
                            name |-> "n", saml |-> links], EnvWith(b)).depth
                    \in {1, 2}

\* C17 witness: base.user_admin has SAML ids and a password and the
\* parameter is false; with password_security installed a write on it runs
\* the cleanup, whose nested write stores a generated password that a second
\* cleanup would clear again, and the write ends with two writes on the stack.
C17_Witness ==
    LET r == write(DB, {user_admin}, [NoVals EXCEPT !.name = "n"], FALSE,
                   EnvWith(TRUE))
    IN /\ user_admin \in users
       /\ ~allow_param
       /\ HasSamlIds(DB, user_admin)
       /\ Truthy(password[user_admin])
       /\ r.exc = "none"
       /\ r.depth = 2
       /\ r.db.password[user_admin] = GeneratedPassword

\* C18: whenever auth_saml ends in AccessDenied, every table is as it was
\* before the call: no token made or changed, no mapped attribute written.
C18_DeniedLeavesTables ==
    \A provider \in Providers, saml_response \in Responses, v \in Validations :
        LET r == auth_saml(DB, provider, saml_response, v, Env)
        IN r.exc = "AccessDenied" => r.db = DB

\* C19: for a user whose tokens are all empty ones, never filled by a
\* sign-in, and whose standard check is denied, _check_credentials ends in
\* AccessDenied on every secret, the false-like one included.
C19_PlaceholderNeverAccepted ==
    \A u \in users, v \in Secrets :
        (HeldBy(u) = {PyFalse}) =>
            _check_credentials(DB, u, v, "AccessDenied") = "AccessDenied"

\* C20: with the standard check of user B denied, a secret that a token of
\* another user A holds and no token of B holds ends in AccessDenied for B.
C20_TokenOnlyForOwner ==
    \A a \in users, b \in users, v \in Secrets :
        (a # b /\ v \in HeldBy(a) /\ v \notin HeldBy(b)) =>
            /\ _check_credentials(DB, b, v, "AccessDenied") = "AccessDenied"
            /\ _check_credentials(DB, b, v, "PasswordSizeError") = "AccessDenied"

\* C20 witness: user A signed in and holds r1, user B holds another token
\* and not r1; r1 passes for A and is denied for B.
C20_Witness ==
    \E a \in users, b \in users :
        /\ a # b
        /\ "r1" \in HeldBy(a)
        /\ "r2" \in HeldBy(b)
        /\ "r1" \notin HeldBy(b)
        /\ _check_credentials(DB, a, "r1", "AccessDenied") = "none"
        /\ _check_credentials(DB, b, "r1", "AccessDenied") = "AccessDenied"
====
